---- MODULE Spec2Model ----
(***************************************************************************)
(* MessagePack::Factory (ext/msgpack/factory_class.c): a factory owns an   *)
(* encode-side and a decode-side extension registry, register_type writes  *)
(* one entry into each, and packer()/unpacker() produce codec instances    *)
(* that carry a duplicate of the factory's registry.                       *)
(*                                                                         *)
(* Registries live in two heaps (pkrgs, ukrgs): a registry storage is      *)
(* named by its index, so that aliasing of storage can be told apart from  *)
(* equality of content.                                                    *)
(***************************************************************************)
EXTENDS Integers, Sequences, FiniteSets, TLC

VARIABLES fc, pkrgs, ukrgs, codecs, nreg, result

vars == <<fc, pkrgs, ukrgs, codecs, nreg, result>>

(***************************************************************************)
(* Bounds of the model.                                                    *)
(***************************************************************************)
\* successful register_type calls explored under Spec
MaxRegister == 2
\* successful register_type calls explored under SpecArgs
MaxRegisterArgs == 1
\* codec instances produced from the factory
MaxCodecs == 2
\* largest argument count passed to Factory.new
MaxNewArgc == 2

(***************************************************************************)
(* Program constants.                                                      *)
(***************************************************************************)
EXT_TYPE_MIN == -128
EXT_TYPE_MAX == 127

(***************************************************************************)
(* Ruby values (VALUE).  `type` is what rb_type() answers.  A Hash carries *)
(* its :packer and :unpacker entries; an absent entry reads as nil, which  *)
(* is what rb_hash_aref answers for it.                                    *)
(***************************************************************************)
Atom(t, nm, n) == [type |-> t, name |-> nm, num |-> n]

Qnil        == Atom("T_NIL", "nil", 0)
Fixnum(n)   == Atom("T_FIXNUM", "Integer", n)
Class(c)    == Atom("T_CLASS", c, 0)
Module(m)   == Atom("T_MODULE", m, 0)
Symbol(s)   == Atom("T_SYMBOL", s, 0)
String(s)   == Atom("T_STRING", s, 0)
\* a Proc: answers to to_proc and to call
Proc(p)     == Atom("T_DATA", p, 0)
\* an ordinary object that defines call but not to_proc
CallableObj == Atom("T_OBJECT", "callable", 0)
\* an ordinary object that defines neither
PlainObj    == Atom("T_OBJECT", "plain", 0)

Val(a)      == [type |-> a.type, name |-> a.name, num |-> a.num,
                packer |-> Qnil, unpacker |-> Qnil]
Hash(p, u)  == [type |-> "T_HASH", name |-> "Hash", num |-> 0,
                packer |-> p, unpacker |-> u]
AtomOf(v)   == Atom(v.type, v.name, v.num)

rb_type(v) == v.type

rb_hash_aref(h, key) == IF key = "packer" THEN h.packer ELSE h.unpacker

\* the singleton (type-level) operations each class of the model defines
SingletonMethods(c) == IF c = "A" THEN {"from_msgpack_ext"} ELSE {}

\* the instance-level operations each class of the model defines
InstanceMethods(c) == IF c = "B" THEN {"to_msgpack_ext"} ELSE {}

\* does the value answer to the method?
RespondTo(v, m) ==
    CASE m = "to_proc" -> rb_type(v) \in {"T_SYMBOL", "T_DATA"}
      [] m = "call"    -> \/ rb_type(v) = "T_DATA"
                          \/ (rb_type(v) = "T_OBJECT" /\ v.name = "callable")
      [] OTHER         -> FALSE

(***************************************************************************)
(* Hooks as stored in a registry.                                          *)
(***************************************************************************)
HookNil == [kind |-> "nil", recv |-> "", name |-> ""]
\* Symbol#to_proc: the named operation is looked up on the receiver at call time
SymProc(s) == [kind |-> "symproc", recv |-> "", name |-> s]
ProcHook(p) == [kind |-> "proc", recv |-> p, name |-> ""]
\* a Method object: the operation `nm` bound to the receiver `r`
MethodHook(r, nm) == [kind |-> "method", recv |-> r, name |-> nm]

(***************************************************************************)
(* Extension registries (packer_ext_registry, unpacker_ext_registry).  An  *)
(* encode registry is keyed by the class, a decode registry by the code;   *)
(* `destroys` counts the calls of destroy on the storage.                  *)
(***************************************************************************)
PkEntry(klass, ext_type, proc) == [klass |-> klass, ext_type |-> ext_type, proc |-> proc]
UkEntry(ext_type, proc) == [ext_type |-> ext_type, proc |-> proc]

msgpack_packer_ext_registry_init == [destroys |-> 0, entries |-> {}]
msgpack_unpacker_ext_registry_init == [destroys |-> 0, entries |-> {}]

msgpack_packer_ext_registry_put(entries, klass, ext_type, proc) ==
    {e \in entries : e.klass # klass} \cup {PkEntry(klass, ext_type, proc)}

msgpack_unpacker_ext_registry_put(entries, ext_type, proc) ==
    {e \in entries : e.ext_type # ext_type} \cup {UkEntry(ext_type, proc)}

msgpack_packer_ext_registry_dup(src) == [destroys |-> 0, entries |-> src.entries]
msgpack_unpacker_ext_registry_dup(src) == [destroys |-> 0, entries |-> src.entries]

msgpack_packer_ext_registry_destroy(rg) == [destroys |-> rg.destroys + 1, entries |-> {}]
msgpack_unpacker_ext_registry_destroy(rg) == [destroys |-> rg.destroys + 1, entries |-> {}]

(***************************************************************************)
(* Factory_register_type, as a function of the registries and argv.        *)
(* Its answer: the two registries after the call, and the exception raised *)
(* ("" when the call returns) with the source line of the raise.           *)
(***************************************************************************)
Outcome(pk, uk, exc, line) == [pk |-> pk, uk |-> uk, exc |-> exc, line |-> line]

\* a variant that lets every call with two or more arguments through
ArgcAccepted_AtLeastTwo(argc) == argc >= 2

\* switch (argc): case 2, case 3
ArgcAccepted(argc) == argc \in {2, 3}

\* a variant that takes nil options for an empty mapping
OptionsAccepted_OrNil(options) == rb_type(options) \in {"T_HASH", "T_NIL"}

\* rb_type(options) != T_HASH raises
OptionsAccepted(options) == rb_type(options) = "T_HASH"

\* rb_num2int: a non-numeric value raises TypeError
IsNumeric(v) == rb_type(v) = "T_FIXNUM"
rb_num2int(v) == v.num

\* a variant with the upper limit off by one
ExtTypeAccepted_OffByOne(ext_type) == ~(ext_type < EXT_TYPE_MIN \/ ext_type > EXT_TYPE_MAX + 1)

\* a variant that takes the code for an unsigned byte
ExtTypeAccepted_Unsigned(ext_type) == ~(ext_type < 0 \/ ext_type > 255)

\* ext_type < -128 || ext_type > 127 raises
ExtTypeAccepted(ext_type) == ~(ext_type < EXT_TYPE_MIN \/ ext_type > EXT_TYPE_MAX)

\* a variant that lets a module through
ExtClassAccepted_OrModule(ext_class) == rb_type(ext_class) \in {"T_CLASS", "T_MODULE"}

\* rb_type(ext_class) != T_CLASS raises
ExtClassAccepted(ext_class) == rb_type(ext_class) = "T_CLASS"

\* a variant that misspells the default unpacker operation
DefaultUnpackerArg_Misspelt == Symbol("from_msgpack")

\* the hooks of the two-argument form
DefaultPackerArg == Symbol("to_msgpack_ext")
DefaultUnpackerArg == Symbol("from_msgpack_ext")

\* rb_funcall(packer_arg, rb_intern("to_proc"), 0)
ToProc(packer_arg) ==
    IF rb_type(packer_arg) = "T_SYMBOL" THEN SymProc(packer_arg.name)
    ELSE ProcHook(packer_arg.name)

\* a variant that normalizes an unpacker that is not a name with to_proc, as the packer
UnpackerResolves_ToProc(ext_class, unpacker_arg) ==
    IF rb_type(unpacker_arg) = "T_SYMBOL" \/ rb_type(unpacker_arg) = "T_STRING"
    THEN unpacker_arg.name \in SingletonMethods(ext_class.name)
    ELSE RespondTo(unpacker_arg, "to_proc")

\* a variant that leaves the lookup of a named unpacker operation to call time
UnpackerResolves_Lazy(ext_class, unpacker_arg) ==
    IF rb_type(unpacker_arg) = "T_SYMBOL" \/ rb_type(unpacker_arg) = "T_STRING"
    THEN TRUE
    ELSE RespondTo(unpacker_arg, "call")

\* does the resolution of the unpacker hook find its method?
UnpackerResolves(ext_class, unpacker_arg) ==
    IF rb_type(unpacker_arg) = "T_SYMBOL" \/ rb_type(unpacker_arg) = "T_STRING"
    THEN unpacker_arg.name \in SingletonMethods(ext_class.name)
    ELSE RespondTo(unpacker_arg, "call")

\* rb_obj_method(ext_class, unpacker_arg), or unpacker_arg.method(:call)
UnpackerProc(ext_class, unpacker_arg) ==
    IF rb_type(unpacker_arg) = "T_SYMBOL" \/ rb_type(unpacker_arg) = "T_STRING"
    THEN MethodHook(ext_class.name, unpacker_arg.name)
    ELSE MethodHook(unpacker_arg.name, "call")

UnpackerRaiseLine(unpacker_arg) ==
    IF rb_type(unpacker_arg) = "T_SYMBOL" \/ rb_type(unpacker_arg) = "T_STRING"
    THEN 169 ELSE 171

\* a variant that writes the encode entry before it resolves the unpacker hook
ResolveAndPut_PutEarly(pk, uk, ext_class, ext_type, packer_arg, unpacker_arg) ==
    IF packer_arg # Qnil /\ ~RespondTo(packer_arg, "to_proc")
    THEN Outcome(pk, uk, "NoMethodError", 164)
    ELSE LET packer_proc == IF packer_arg # Qnil THEN ToProc(packer_arg) ELSE HookNil
             pk1 == msgpack_packer_ext_registry_put(pk, ext_class.name, ext_type, packer_proc)
         IN  IF unpacker_arg # Qnil /\ ~UnpackerResolves(ext_class, unpacker_arg)
             THEN Outcome(pk1, uk, "NameError", UnpackerRaiseLine(unpacker_arg))
             ELSE Outcome(pk1,
                          msgpack_unpacker_ext_registry_put(uk, ext_type,
                              IF unpacker_arg # Qnil
                              THEN UnpackerProc(ext_class, unpacker_arg) ELSE HookNil),
                          "", 0)

\* a variant that keeps the entries of a class that is registered already
ResolveAndPut_KeepFirst(pk, uk, ext_class, ext_type, packer_arg, unpacker_arg) ==
    IF packer_arg # Qnil /\ ~RespondTo(packer_arg, "to_proc")
    THEN Outcome(pk, uk, "NoMethodError", 164)
    ELSE IF unpacker_arg # Qnil /\ ~UnpackerResolves(ext_class, unpacker_arg)
    THEN Outcome(pk, uk, "NameError", UnpackerRaiseLine(unpacker_arg))
    ELSE IF \E e \in pk : e.klass = ext_class.name
    THEN Outcome(pk, uk, "", 0)
    ELSE LET packer_proc == IF packer_arg # Qnil THEN ToProc(packer_arg) ELSE HookNil
             unpacker_proc == IF unpacker_arg # Qnil
                              THEN UnpackerProc(ext_class, unpacker_arg) ELSE HookNil
         IN  Outcome(msgpack_packer_ext_registry_put(pk, ext_class.name, ext_type, packer_proc),
                     msgpack_unpacker_ext_registry_put(uk, ext_type, unpacker_proc),
                     "", 0)

\* a variant that writes the decode entry only when an unpacker hook was given
ResolveAndPut_NoUnpackerPut(pk, uk, ext_class, ext_type, packer_arg, unpacker_arg) ==
    IF packer_arg # Qnil /\ ~RespondTo(packer_arg, "to_proc")
    THEN Outcome(pk, uk, "NoMethodError", 164)
    ELSE IF unpacker_arg # Qnil /\ ~UnpackerResolves(ext_class, unpacker_arg)
    THEN Outcome(pk, uk, "NameError", UnpackerRaiseLine(unpacker_arg))
    ELSE Outcome(msgpack_packer_ext_registry_put(pk, ext_class.name, ext_type,
                     IF packer_arg # Qnil THEN ToProc(packer_arg) ELSE HookNil),
                 IF unpacker_arg = Qnil THEN uk
                 ELSE msgpack_unpacker_ext_registry_put(uk, ext_type,
                                                        UnpackerProc(ext_class, unpacker_arg)),
                 "", 0)

\* a variant that writes no entry for a direction whose hook is absent
ResolveAndPut_SkipAbsent(pk, uk, ext_class, ext_type, packer_arg, unpacker_arg) ==
    IF packer_arg # Qnil /\ ~RespondTo(packer_arg, "to_proc")
    THEN Outcome(pk, uk, "NoMethodError", 164)
    ELSE IF unpacker_arg # Qnil /\ ~UnpackerResolves(ext_class, unpacker_arg)
    THEN Outcome(pk, uk, "NameError", UnpackerRaiseLine(unpacker_arg))
    ELSE Outcome(IF packer_arg = Qnil THEN pk
                 ELSE msgpack_packer_ext_registry_put(pk, ext_class.name, ext_type,
                                                      ToProc(packer_arg)),
                 IF unpacker_arg = Qnil THEN uk
                 ELSE msgpack_unpacker_ext_registry_put(uk, ext_type,
                                                        UnpackerProc(ext_class, unpacker_arg)),
                 "", 0)

\* lines 160..179: resolve both hooks, then write both entries
ResolveAndPut(pk, uk, ext_class, ext_type, packer_arg, unpacker_arg) ==
    IF packer_arg # Qnil /\ ~RespondTo(packer_arg, "to_proc")
    THEN Outcome(pk, uk, "NoMethodError", 164)
    ELSE IF unpacker_arg # Qnil /\ ~UnpackerResolves(ext_class, unpacker_arg)
    THEN Outcome(pk, uk, "NameError", UnpackerRaiseLine(unpacker_arg))
    ELSE LET packer_proc == IF packer_arg # Qnil THEN ToProc(packer_arg) ELSE HookNil
             unpacker_proc == IF unpacker_arg # Qnil
                              THEN UnpackerProc(ext_class, unpacker_arg) ELSE HookNil
         IN  Outcome(msgpack_packer_ext_registry_put(pk, ext_class.name, ext_type, packer_proc),
                     msgpack_unpacker_ext_registry_put(uk, ext_type, unpacker_proc),
                     "", 0)

\* a variant that checks the class before the code
CheckAndPut_ClassFirst(pk, uk, argv, packer_arg, unpacker_arg) ==
    IF ~ExtClassAccepted(argv[2]) THEN Outcome(pk, uk, "ArgumentError", 157)
    ELSE IF ~IsNumeric(argv[1]) THEN Outcome(pk, uk, "TypeError", 150)
    ELSE IF ~ExtTypeAccepted(rb_num2int(argv[1])) THEN Outcome(pk, uk, "RangeError", 152)
    ELSE ResolveAndPut(pk, uk, argv[2], rb_num2int(argv[1]), packer_arg, unpacker_arg)

\* lines 150..158, then the rest
CheckAndPut(pk, uk, argv, packer_arg, unpacker_arg) ==
    IF ~IsNumeric(argv[1]) THEN Outcome(pk, uk, "TypeError", 150)
    ELSE IF ~ExtTypeAccepted(rb_num2int(argv[1])) THEN Outcome(pk, uk, "RangeError", 152)
    ELSE IF ~ExtClassAccepted(argv[2]) THEN Outcome(pk, uk, "ArgumentError", 157)
    ELSE ResolveAndPut(pk, uk, argv[2], rb_num2int(argv[1]), packer_arg, unpacker_arg)

\* the whole handler
RegisterType(pk, uk, argv) ==
    LET argc == Len(argv) IN
    IF ~ArgcAccepted(argc) THEN Outcome(pk, uk, "ArgumentError", 147)
    ELSE IF argc = 2
    THEN CheckAndPut(pk, uk, argv, DefaultPackerArg, DefaultUnpackerArg)
    ELSE IF ~OptionsAccepted(argv[3]) THEN Outcome(pk, uk, "ArgumentError", 141)
    ELSE CheckAndPut(pk, uk, argv, rb_hash_aref(argv[3], "packer"),
                                   rb_hash_aref(argv[3], "unpacker"))

(***************************************************************************)
(* The record of the last call: the operation, a summary of its arguments  *)
(* (argc, argv[0], argv[1], the rb_type of argv[2]), the exception raised  *)
(* ("" when the call returned) and the source line of the raise.           *)
(***************************************************************************)
Call(op, argc, exc, line) ==
    [op |-> op, argc |-> argc, code |-> Qnil, klass |-> Qnil, opts |-> "",
     exc |-> exc, line |-> line]

RegisterCall(argv, exc, line) ==
    LET argc == Len(argv) IN
    [op |-> "register_type", argc |-> argc,
     code |-> IF argc >= 1 THEN AtomOf(argv[1]) ELSE Qnil,
     klass |-> IF argc >= 2 THEN AtomOf(argv[2]) ELSE Qnil,
     opts |-> IF argc >= 3 THEN rb_type(argv[3]) ELSE "",
     exc |-> exc, line |-> line]

NoCall == Call("", 0, "", 0)

NoFactory == [state |-> "none", pkrg |-> 0, ukrg |-> 0,
              packer_options |-> Val(Qnil), unpacker_options |-> Val(Qnil)]

Init ==
    /\ fc = NoFactory
    /\ pkrgs = <<>>
    /\ ukrgs = <<>>
    /\ codecs = <<>>
    /\ nreg = 0
    /\ result = NoCall

(***************************************************************************)
(* Factory.new(argc arguments): Factory_alloc, then Factory_initialize.    *)
(* When initialize raises, the allocated object is never handed to the     *)
(* caller: it is garbage, to be freed by the collector.                    *)
(***************************************************************************)
\* a variant that lets one argument through
InitializeAccepted_UpToOne(argc) == argc <= 1

\* switch (argc): case 0
InitializeAccepted(argc) == argc = 0

Factory_alloc ==
    [state |-> "allocated", pkrg |-> Len(pkrgs) + 1, ukrg |-> Len(ukrgs) + 1,
     packer_options |-> Hash(Qnil, Qnil), unpacker_options |-> Hash(Qnil, Qnil)]

Factory_initialize(argc) ==
    /\ fc.state = "none"
    /\ pkrgs' = Append(pkrgs, msgpack_packer_ext_registry_init)
    /\ ukrgs' = Append(ukrgs, msgpack_unpacker_ext_registry_init)
    /\ IF InitializeAccepted(argc)
       THEN /\ fc' = [Factory_alloc EXCEPT !.state = "live"]
            /\ result' = Call("new", argc, "", 0)
       ELSE /\ fc' = [Factory_alloc EXCEPT !.state = "garbage"]
            /\ result' = Call("new", argc, "ArgumentError", 85)
    /\ UNCHANGED <<codecs, nreg>>

(***************************************************************************)
(* Factory_free: the collector frees a factory nothing refers to.          *)
(***************************************************************************)
Factory_free ==
    /\ fc.state \in {"live", "garbage"}
    /\ pkrgs' = [pkrgs EXCEPT ![fc.pkrg] = msgpack_packer_ext_registry_destroy(@)]
    /\ ukrgs' = [ukrgs EXCEPT ![fc.ukrg] = msgpack_unpacker_ext_registry_destroy(@)]
    /\ fc' = [fc EXCEPT !.state = "freed"]
    /\ result' = Call("free", 0, "", 0)
    /\ UNCHANGED <<codecs, nreg>>

(***************************************************************************)
(* f.register_type(argv...); `max` bounds the successful registrations.      *)
(***************************************************************************)
Factory_register_type(argv, max) ==
    /\ fc.state = "live"
    /\ nreg < max
    /\ LET o == RegisterType(pkrgs[fc.pkrg].entries, ukrgs[fc.ukrg].entries, argv)
       IN  /\ pkrgs' = [pkrgs EXCEPT ![fc.pkrg].entries = o.pk]
           /\ ukrgs' = [ukrgs EXCEPT ![fc.ukrg].entries = o.uk]
           /\ nreg' = IF o.exc = "" THEN nreg + 1 ELSE nreg
           /\ result' = RegisterCall(argv, o.exc, o.line)
    /\ UNCHANGED <<fc, codecs>>

(***************************************************************************)
(* f.packer(...) and f.unpacker(...).  The codec construction              *)
(* (MessagePack_Packer_new, MessagePack_Unpacker_new) either raises or     *)
(* answers a codec with a default registry `dflt` of its own.              *)
(***************************************************************************)
\* a variant that installs the factory's own registry instead of a duplicate
PackerInstall_Alias(heap, src, dst) ==
    [heap |-> [heap EXCEPT ![dst] = msgpack_packer_ext_registry_destroy(@)], reg |-> src]

\* a variant that keeps the entries of the codec's default registry
PackerInstall_Merge(heap, src, dst) ==
    LET d == msgpack_packer_ext_registry_dup(heap[src])
        h1 == [heap EXCEPT ![dst] = msgpack_packer_ext_registry_destroy(@)]
        h2 == Append(h1, [d EXCEPT !.entries = @ \cup heap[dst].entries])
    IN  [heap |-> h2, reg |-> Len(h2)]

\* a variant with lines 100 and 101 swapped: the duplicate is installed, then destroyed
PackerInstall_DestroyAfter(heap, src, dst) ==
    LET h1 == Append(heap, msgpack_packer_ext_registry_dup(heap[src]))
        h2 == [h1 EXCEPT ![Len(h1)] = msgpack_packer_ext_registry_destroy(@)]
    IN  [heap |-> h2, reg |-> Len(h2)]

\* a variant that moves the entries of src into the codec instead of copying them
PackerInstall_Move(heap, src, dst) ==
    LET h1 == [heap EXCEPT ![dst] = msgpack_packer_ext_registry_destroy(@)]
        h2 == Append(h1, msgpack_packer_ext_registry_dup(h1[src]))
    IN  [heap |-> [h2 EXCEPT ![src].entries = {}], reg |-> Len(h2)]

\* lines 100..101: destroy the codec's registry dst, install a duplicate of src
PackerInstall(heap, src, dst) ==
    LET h1 == [heap EXCEPT ![dst] = msgpack_packer_ext_registry_destroy(@)]
        h2 == Append(h1, msgpack_packer_ext_registry_dup(h1[src]))
    IN  [heap |-> h2, reg |-> Len(h2)]

\* a variant that installs the factory's own decode registry instead of a duplicate
UnpackerInstall_Alias(heap, src, dst) ==
    [heap |-> [heap EXCEPT ![dst] = msgpack_unpacker_ext_registry_destroy(@)], reg |-> src]

\* lines 115..116
UnpackerInstall(heap, src, dst) ==
    LET h1 == [heap EXCEPT ![dst] = msgpack_unpacker_ext_registry_destroy(@)]
        h2 == Append(h1, msgpack_unpacker_ext_registry_dup(h1[src]))
    IN  [heap |-> h2, reg |-> Len(h2)]

MessagePack_Packer_new(heap, dflt) == Append(heap, [destroys |-> 0, entries |-> dflt])
MessagePack_Unpacker_new(heap, dflt) == Append(heap, [destroys |-> 0, entries |-> dflt])

\* a codec instance: the registry it holds, and whether the collector has freed it
Codec(kind, reg) == [kind |-> kind, ext_registry |-> reg, state |-> "live"]

Factory_packer(raises, dflt) ==
    /\ fc.state = "live"
    /\ Len(codecs) < MaxCodecs
    /\ IF raises
       THEN /\ result' = Call("packer", 0, "ArgumentError", 95)
            /\ UNCHANGED <<pkrgs, codecs>>
       ELSE LET h == MessagePack_Packer_new(pkrgs, dflt)
                i == PackerInstall(h, fc.pkrg, Len(h))
            IN  /\ pkrgs' = i.heap
                /\ codecs' = Append(codecs, Codec("packer", i.reg))
                /\ result' = Call("packer", 0, "", 0)
    /\ UNCHANGED <<fc, ukrgs, nreg>>

Factory_unpacker(raises, dflt) ==
    /\ fc.state = "live"
    /\ Len(codecs) < MaxCodecs
    /\ IF raises
       THEN /\ result' = Call("unpacker", 0, "ArgumentError", 110)
            /\ UNCHANGED <<ukrgs, codecs>>
       ELSE LET h == MessagePack_Unpacker_new(ukrgs, dflt)
                i == UnpackerInstall(h, fc.ukrg, Len(h))
            IN  /\ ukrgs' = i.heap
                /\ codecs' = Append(codecs, Codec("unpacker", i.reg))
                /\ result' = Call("unpacker", 0, "", 0)
    /\ UNCHANGED <<fc, pkrgs, nreg>>

(***************************************************************************)
(* What happens to a codec once it is produced: a registration on the      *)
(* codec itself puts an entry into the registry the codec holds, and the   *)
(* collector frees a codec nothing refers to, destroying that registry.    *)
(* Both may happen after the factory is freed.                             *)
(***************************************************************************)
Codec_ext_registry_put(i, klass, ext_type, proc) ==
    /\ i \in DOMAIN codecs
    /\ codecs[i].state = "live"
    /\ LET r == codecs[i].ext_registry IN
       IF codecs[i].kind = "packer"
       THEN /\ pkrgs' = [pkrgs EXCEPT ![r].entries =
                            msgpack_packer_ext_registry_put(@, klass, ext_type, proc)]
            /\ UNCHANGED ukrgs
       ELSE /\ ukrgs' = [ukrgs EXCEPT ![r].entries =
                            msgpack_unpacker_ext_registry_put(@, ext_type, proc)]
            /\ UNCHANGED pkrgs
    /\ result' = [Call("codec_put", i, "", 0) EXCEPT !.code = Fixnum(ext_type),
                                                     !.klass = Class(klass)]
    /\ UNCHANGED <<fc, codecs, nreg>>

Codec_free(i) ==
    /\ i \in DOMAIN codecs
    /\ codecs[i].state = "live"
    /\ LET r == codecs[i].ext_registry IN
       IF codecs[i].kind = "packer"
       THEN /\ pkrgs' = [pkrgs EXCEPT ![r] = msgpack_packer_ext_registry_destroy(@)]
            /\ UNCHANGED ukrgs
       ELSE /\ ukrgs' = [ukrgs EXCEPT ![r] = msgpack_unpacker_ext_registry_destroy(@)]
            /\ UNCHANGED pkrgs
    /\ codecs' = [codecs EXCEPT ![i].state = "freed"]
    /\ result' = Call("codec_free", i, "", 0)
    /\ UNCHANGED <<fc, nreg>>

(***************************************************************************)
(* The inputs.                                                             *)
(***************************************************************************)
CodeArgs == {Val(Fixnum(n)) : n \in {-129, -128, 127, 128}} \cup {Val(Qnil)}
ClassArgs == {Val(Class("A")), Val(Class("B")), Val(Module("M")), Val(PlainObj)}
HookArgs == {Qnil, Proc("proc1"), CallableObj, PlainObj,
             Symbol("from_msgpack_ext"), String("from_msgpack_ext")}
OptionArgs == {Hash(p, u) : p, u \in HookArgs} \cup {Val(Qnil)}

\* every call shape of register_type, with 0 to 4 arguments
ArgvAll ==
    {<<>>} \cup {<<c>> : c \in CodeArgs}
    \cup {<<c, k>> : c \in CodeArgs, k \in ClassArgs}
    \cup {<<c, k, o>> : c \in CodeArgs, k \in ClassArgs, o \in OptionArgs}
    \cup {<<c, k, o, Val(Qnil)>> : c \in CodeArgs, k \in ClassArgs,
                                   o \in {Hash(Qnil, Qnil), Val(Qnil)}}

\* the calls explored together with the codecs
ArgvSome ==
    LET cs == {Val(Fixnum(n)) : n \in {-128, 127, 128}}
        ks == {Val(Class("A")), Val(Class("B"))}
        os == {Hash(Proc("proc1"), Proc("proc1")), Hash(Qnil, Qnil),
               Hash(CallableObj, CallableObj)}
    IN  {<<c, k>> : c \in cs, k \in ks} \cup {<<c, k, o>> : c \in cs, k \in ks, o \in os}

DefaultPkRegistries == {{}, {PkEntry("Default", -1, SymProc("to_msgpack_ext"))}}
DefaultUkRegistries == {{}, {UkEntry(-1, MethodHook("Default", "from_msgpack_ext"))}}

Next ==
    \/ \E argc \in 0..MaxNewArgc : Factory_initialize(argc)
    \/ \E argv \in ArgvSome : Factory_register_type(argv, MaxRegister)
    \/ \E raises \in BOOLEAN, dflt \in DefaultPkRegistries : Factory_packer(raises, dflt)
    \/ \E raises \in BOOLEAN, dflt \in DefaultUkRegistries : Factory_unpacker(raises, dflt)
    \/ Factory_free

Spec == Init /\ [][Next]_vars

NextArgs ==
    \/ \E argc \in 0..MaxNewArgc : Factory_initialize(argc)
    \/ \E argv \in ArgvAll : Factory_register_type(argv, MaxRegisterArgs)
    \/ Factory_free

SpecArgs == Init /\ [][NextArgs]_vars

\* the calls explored together with the life of the codecs
ArgvLife ==
    {<<Val(Fixnum(-128)), Val(Class("A"))>>,
     <<Val(Fixnum(127)), Val(Class("B")), Hash(Proc("proc1"), Proc("proc1"))>>,
     <<Val(Fixnum(128)), Val(Class("A"))>>}

\* what is registered on a codec: a class and code of its own, or the factory's
CodecPutClasses == {"A", "C"}
CodecPutCodes == {-128, 5}

NextLife ==
    \/ \E argc \in 0..MaxNewArgc : Factory_initialize(argc)
    \/ \E argv \in ArgvLife : Factory_register_type(argv, MaxRegisterArgs)
    \/ \E raises \in BOOLEAN, dflt \in DefaultPkRegistries : Factory_packer(raises, dflt)
    \/ \E raises \in BOOLEAN, dflt \in DefaultUkRegistries : Factory_unpacker(raises, dflt)
    \/ \E i \in 1..MaxCodecs, k \in CodecPutClasses, n \in CodecPutCodes :
          Codec_ext_registry_put(i, k, n, ProcHook("proc2"))
    \/ \E i \in 1..MaxCodecs : Codec_free(i)
    \/ Factory_free

SpecLife == Init /\ [][NextLife]_vars

(***************************************************************************)
(* What the properties below speak of.                                     *)
(***************************************************************************)
\* the content of the factory's registries, now and after the step
FcPk == pkrgs[fc.pkrg].entries
FcUk == ukrgs[fc.ukrg].entries
FcPkNext == pkrgs'[fc'.pkrg].entries
FcUkNext == ukrgs'[fc'.ukrg].entries

\* the content of a codec's registry, now and after the step
CodecEntries(c) ==
    IF c.kind = "packer" THEN pkrgs[c.ext_registry].entries
    ELSE ukrgs[c.ext_registry].entries
CodecEntriesNext(c) ==
    IF c.kind = "packer" THEN pkrgs'[c.ext_registry].entries
    ELSE ukrgs'[c.ext_registry].entries

LastCodec == codecs[Len(codecs)]
NewCodec == codecs'[Len(codecs')]

\* the step is a call of register_type / produces a codec
RegisterStep == result'.op = "register_type"
CodecStep == Len(codecs') = Len(codecs) + 1
FactoryUntouched == fc' = fc /\ FcPkNext = FcPk /\ FcUkNext = FcUk

\* the code argument is an integer inside / outside [-128, 127]
CodeInRange(a) == a.type = "T_FIXNUM" /\ a.num >= EXT_TYPE_MIN /\ a.num <= EXT_TYPE_MAX
CodeOutOfRange(a) == a.type = "T_FIXNUM" /\ (a.num < EXT_TYPE_MIN \/ a.num > EXT_TYPE_MAX)

(***************************************************************************)
(* C1. Snapshot isolation: no step changes the registry of a codec that    *)
(* exists (neither the storage it names nor the content of that storage),  *)
(* whatever the factory does meanwhile; and a codec constructed right      *)
(* after a successful register_type holds the mapping just registered.     *)
(***************************************************************************)
C1_SnapshotIsolation ==
    [][ /\ \A i \in DOMAIN codecs :
             /\ i \in DOMAIN codecs'
             /\ codecs'[i] = codecs[i]
             /\ CodecEntriesNext(codecs[i]) = CodecEntries(codecs[i])
        /\ (CodecStep /\ result.op = "register_type" /\ result.exc = "")
             => IF NewCodec.kind = "packer"
                THEN \E e \in pkrgs'[NewCodec.ext_registry].entries :
                        e.klass = result.klass.name /\ e.ext_type = result.code.num
                ELSE \E e \in ukrgs'[NewCodec.ext_registry].entries :
                        e.ext_type = result.code.num
      ]_vars

\* an older packer still holds its snapshot while a newer one holds the new mapping
C1_Witness ==
    /\ fc.state = "live"
    /\ \E i, j \in DOMAIN codecs :
         /\ i < j
         /\ codecs[i].kind = "packer" /\ codecs[j].kind = "packer"
         /\ CodecEntries(codecs[j]) = FcPk
         /\ CodecEntries(codecs[i]) # FcPk
         /\ \E e \in FcPk : e \notin CodecEntries(codecs[i])

(***************************************************************************)
(* C2. When f.packer returns, the new packer's registry is a fresh storage *)
(* holding exactly the entries of f's encode registry, whatever default    *)
(* registry the packer was constructed with; likewise f.unpacker and the   *)
(* decode registry.                                                        *)
(***************************************************************************)
C2_CodecHoldsFactoryEntries ==
    /\ (result.op = "packer" /\ result.exc = "")
         => /\ Len(codecs) >= 1
            /\ LastCodec.kind = "packer"
            /\ LastCodec.ext_registry # fc.pkrg
            /\ pkrgs[LastCodec.ext_registry].destroys = 0
            /\ pkrgs[LastCodec.ext_registry].entries = FcPk
    /\ (result.op = "unpacker" /\ result.exc = "")
         => /\ Len(codecs) >= 1
            /\ LastCodec.kind = "unpacker"
            /\ LastCodec.ext_registry # fc.ukrg
            /\ ukrgs[LastCodec.ext_registry].destroys = 0
            /\ ukrgs[LastCodec.ext_registry].entries = FcUk

\* a packer was just produced from a factory with entries, its default registry destroyed
C2_Witness ==
    /\ result.op = "packer" /\ result.exc = ""
    /\ FcPk # {}
    /\ pkrgs[LastCodec.ext_registry - 1].destroys = 1
    /\ pkrgs[LastCodec.ext_registry].entries = FcPk

(***************************************************************************)
(* C3 as stated: every call of register_type with two or three arguments   *)
(* and a code outside [-128, 127] fails with a range error and leaves the  *)
(* factory unchanged, whatever the other arguments.                        *)
(***************************************************************************)
C3_AsStated ==
    [][ (RegisterStep /\ result'.argc \in {2, 3} /\ CodeOutOfRange(result'.code))
          => (result'.exc = "RangeError" /\ FactoryUntouched)
      ]_vars

(***************************************************************************)
(* C3 amended: with a code outside [-128, 127], a call with two arguments, *)
(* or with three arguments the third of which is a Hash, fails with a      *)
(* range error whatever the type argument; a call with three arguments the *)
(* third of which is not a Hash fails with an argument error.  In both     *)
(* cases the factory is left unchanged.                                    *)
(***************************************************************************)
C3_RangeError ==
    [][ (RegisterStep /\ result'.argc \in {2, 3} /\ CodeOutOfRange(result'.code))
          => /\ FactoryUntouched
             /\ IF result'.argc = 3 /\ result'.opts # "T_HASH"
                THEN result'.exc = "ArgumentError"
                ELSE result'.exc = "RangeError"
      ]_vars

\* a three-argument call with an out-of-range code and a non-class type got a range error
C3_Witness ==
    /\ result.op = "register_type" /\ result.argc = 3
    /\ CodeOutOfRange(result.code)
    /\ result.klass.type # "T_CLASS"
    /\ result.opts = "T_HASH"
    /\ result.exc = "RangeError"

(***************************************************************************)
(* C4. register_type is atomic over the two registries: a call that        *)
(* returns has written exactly one entry for its class in the encode       *)
(* registry and exactly one entry for its code in the decode registry and  *)
(* touched no other entry; a call that raises, for whatever cause          *)
(* (including a hook that cannot be resolved), leaves both registries as   *)
(* they were; and every encode entry has a decode entry of the same code.  *)
(***************************************************************************)
C4_Atomic ==
    [][ RegisterStep =>
          /\ IF result'.exc = ""
             THEN /\ Cardinality({e \in FcPkNext : e.klass = result'.klass.name}) = 1
                  /\ \A e \in FcPkNext :
                        IF e.klass = result'.klass.name
                        THEN e.ext_type = result'.code.num
                        ELSE e \in FcPk
                  /\ \A e \in FcPk : e.klass # result'.klass.name => e \in FcPkNext
                  /\ Cardinality({e \in FcUkNext : e.ext_type = result'.code.num}) = 1
                  /\ \A e \in FcUkNext : e.ext_type # result'.code.num => e \in FcUk
                  /\ \A e \in FcUk : e.ext_type # result'.code.num => e \in FcUkNext
             ELSE FcPkNext = FcPk /\ FcUkNext = FcUk
          /\ \A e \in FcPkNext : \E d \in FcUkNext : d.ext_type = e.ext_type
      ]_vars

\* a hook could not be resolved, on a factory that holds entries
C4_Witness ==
    /\ result.op = "register_type"
    /\ result.line \in {164, 169, 171}
    /\ fc.state = "live"
    /\ FcPk # {} /\ FcUk # {}

(***************************************************************************)
(* C5. Last write wins: when register_type succeeds for a class and code   *)
(* the factory holds already, the encode registry then holds one entry for *)
(* the class and the decode registry one entry for the code, both with the *)
(* hooks of this call; a codec constructed by the next call holds that     *)
(* one entry and none of the earlier hooks.                                *)
(***************************************************************************)
\* the hooks a call is to leave in the registries
C5_PackerHook(argv) ==
    IF Len(argv) = 2 THEN SymProc("to_msgpack_ext")
    ELSE IF argv[3].packer = Qnil THEN HookNil
    ELSE [kind |-> "proc", recv |-> argv[3].packer.name, name |-> ""]
C5_UnpackerHook(argv) ==
    IF Len(argv) = 2 THEN MethodHook(argv[2].name, "from_msgpack_ext")
    ELSE IF argv[3].unpacker = Qnil THEN HookNil
    ELSE MethodHook(argv[3].unpacker.name, "call")

C5_LastWriteWins ==
    [][ \A argv \in ArgvSome :
          ( /\ RegisterStep /\ result'.exc = ""
            /\ \E e \in FcPk : e.klass = argv[2].name /\ e.ext_type = argv[1].num
            /\ Factory_register_type(argv, MaxRegister) )
          => /\ {e \in FcPkNext : e.klass = argv[2].name}
                  = {PkEntry(argv[2].name, argv[1].num, C5_PackerHook(argv))}
             /\ {e \in FcUkNext : e.ext_type = argv[1].num}
                  = {UkEntry(argv[1].num, C5_UnpackerHook(argv))}
             /\ \A raises \in BOOLEAN :
                  /\ \A dflt \in DefaultPkRegistries :
                       LET h == MessagePack_Packer_new(pkrgs', dflt)
                           i == PackerInstall(h, fc'.pkrg, Len(h))
                       IN  {e \in i.heap[i.reg].entries : e.klass = argv[2].name}
                             = {PkEntry(argv[2].name, argv[1].num, C5_PackerHook(argv))}
                  /\ \A dflt \in DefaultUkRegistries :
                       LET h == MessagePack_Unpacker_new(ukrgs', dflt)
                           i == UnpackerInstall(h, fc'.ukrg, Len(h))
                       IN  {e \in i.heap[i.reg].entries : e.ext_type = argv[1].num}
                             = {UkEntry(argv[1].num, C5_UnpackerHook(argv))}
      ]_vars

\* the same class and code registered twice with different hooks: a packer made
\* in between holds the first hook, the factory one entry with the second
C5_Witness ==
    /\ fc.state = "live"
    /\ nreg = 2
    /\ Cardinality(FcPk) = 1 /\ Cardinality(FcUk) = 1
    /\ \E i \in DOMAIN codecs :
         /\ codecs[i].kind = "packer"
         /\ \E e \in CodecEntries(codecs[i]) : \E f \in FcPk :
              e.klass = f.klass /\ e.ext_type = f.ext_type /\ e.proc # f.proc

(***************************************************************************)
(* C6 as stated: for every code in [-128, 127] and every class T, whether  *)
(* or not T defines the conventional operations, register_type(code, T)    *)
(* succeeds, and the codecs constructed next map T to code and code to a   *)
(* hook that yields T.                                                     *)
(***************************************************************************)
C6_CodecMaps ==
    (CodecStep /\ result.op = "register_type" /\ result.argc = 2 /\ result.exc = "")
      => IF NewCodec.kind = "packer"
         THEN \E e \in pkrgs'[NewCodec.ext_registry].entries :
                 /\ e.klass = result.klass.name
                 /\ e.ext_type = result.code.num
                 /\ e.proc = SymProc("to_msgpack_ext")
         ELSE \E e \in ukrgs'[NewCodec.ext_registry].entries :
                 /\ e.ext_type = result.code.num
                 /\ e.proc = MethodHook(result.klass.name, "from_msgpack_ext")

C6_AsStated ==
    [][ /\ ( /\ RegisterStep /\ result'.argc = 2
             /\ CodeInRange(result'.code) /\ result'.klass.type = "T_CLASS" )
           => result'.exc = ""
        /\ C6_CodecMaps
      ]_vars

(***************************************************************************)
(* C6 amended: for every code in [-128, 127] and every class T that        *)
(* defines the type-level operation from_msgpack_ext, register_type(code,  *)
(* T) succeeds, a packer constructed next maps T to code (with the hook    *)
(* named to_msgpack_ext) and an unpacker constructed next maps code to the *)
(* operation from_msgpack_ext of T; for a class that does not define       *)
(* from_msgpack_ext the call raises a name error and leaves the factory    *)
(* unchanged.                                                              *)
(***************************************************************************)
C6_TwoArgumentForm ==
    [][ /\ ( /\ RegisterStep /\ result'.argc = 2
             /\ CodeInRange(result'.code) /\ result'.klass.type = "T_CLASS" )
           => IF "from_msgpack_ext" \in SingletonMethods(result'.klass.name)
              THEN result'.exc = ""
              ELSE result'.exc = "NameError" /\ FactoryUntouched
        /\ C6_CodecMaps
      ]_vars

\* an unpacker made right after register_type(code, A) maps the code to A.from_msgpack_ext
C6_Witness ==
    /\ result.op = "unpacker" /\ result.exc = ""
    /\ \E e \in CodecEntries(LastCodec) :
         /\ CodeInRange(Fixnum(e.ext_type))
         /\ e.proc = MethodHook("A", "from_msgpack_ext")
    /\ \E e \in FcPk : e.klass = "A" /\ e.proc = SymProc("to_msgpack_ext")

(***************************************************************************)
(* C7. register_type with an argument count other than two or three fails  *)
(* with an argument error, whatever the arguments, and leaves the factory  *)
(* unchanged.                                                              *)
(***************************************************************************)
C7_Arity ==
    [][ (RegisterStep /\ result'.argc \notin {2, 3})
          => (result'.exc = "ArgumentError" /\ FactoryUntouched)
      ]_vars

\* four arguments, the first three of which would make a valid call
C7_Witness ==
    /\ result.op = "register_type" /\ result.argc = 4
    /\ CodeInRange(result.code)
    /\ result.klass.type = "T_CLASS"
    /\ result.opts = "T_HASH"
    /\ result.exc = "ArgumentError"

(***************************************************************************)
(* C8. register_type with two or three arguments, a code in [-128, 127]    *)
(* and a second argument that is not a class (an ordinary value or a       *)
(* module) fails with an argument error and leaves the factory unchanged;  *)
(* with a class as second argument, the type check does not fail.          *)
(***************************************************************************)
C8_TypeCheck ==
    [][ /\ ( /\ RegisterStep /\ result'.argc \in {2, 3}
             /\ CodeInRange(result'.code) /\ result'.klass.type # "T_CLASS" )
           => (result'.exc = "ArgumentError" /\ FactoryUntouched)
        /\ (RegisterStep /\ result'.argc >= 2 /\ result'.klass.type = "T_CLASS")
           => result'.line # 157
      ]_vars

\* a module as the type, with a valid code and valid options
C8_Witness ==
    /\ result.op = "register_type" /\ result.argc = 3
    /\ CodeInRange(result.code)
    /\ result.klass.type = "T_MODULE"
    /\ result.opts = "T_HASH"
    /\ result.exc = "ArgumentError" /\ result.line = 157

(***************************************************************************)
(* C9. register_type with three arguments the third of which is not a Hash *)
(* fails with an argument error and leaves the factory unchanged; the      *)
(* options check fails in the three-argument form only.                    *)
(***************************************************************************)
C9_OptionsCheck ==
    [][ /\ (RegisterStep /\ result'.argc = 3 /\ result'.opts # "T_HASH")
           => (result'.exc = "ArgumentError" /\ FactoryUntouched)
        /\ (RegisterStep /\ result'.line = 141) => result'.argc = 3
      ]_vars

\* a non-Hash third argument after a valid code and class
C9_Witness ==
    /\ result.op = "register_type" /\ result.argc = 3
    /\ CodeInRange(result.code)
    /\ result.klass.type = "T_CLASS"
    /\ result.opts # "T_HASH"
    /\ result.exc = "ArgumentError" /\ result.line = 141

(***************************************************************************)
(* C10. Factory.new with no argument yields a factory whose two registries *)
(* are empty; with one or more arguments it fails with an argument error   *)
(* and yields no factory.  The registries of a factory are changed by no   *)
(* step other than a register_type call that returns.                      *)
(***************************************************************************)
C10_Construction ==
    [][ /\ result'.op = "new"
           => IF result'.argc = 0
              THEN /\ result'.exc = ""
                   /\ fc'.state = "live"
                   /\ FcPkNext = {} /\ FcUkNext = {}
                   /\ fc'.packer_options = Hash(Qnil, Qnil)
                   /\ fc'.unpacker_options = Hash(Qnil, Qnil)
              ELSE result'.exc = "ArgumentError" /\ fc'.state # "live"
        /\ (fc.state = "live" /\ fc'.state = "live" /\ ~FactoryUntouched)
           => (RegisterStep /\ result'.exc = "")
      ]_vars

\* a construction with arguments has failed
C10_Witness ==
    /\ result.op = "new" /\ result.argc >= 1
    /\ result.exc = "ArgumentError"
    /\ fc.state = "garbage"

(***************************************************************************)
(* C11. Every code stored in the factory's encode registry, in its decode  *)
(* registry and in the registry of every codec produced from it lies in    *)
(* [-128, 127]; register_type accepts the codes -128 and 127 and rejects   *)
(* -129 and 128 with a range error, in both call forms.                    *)
(***************************************************************************)
C11_BoundaryCodes == {EXT_TYPE_MIN - 1, EXT_TYPE_MIN, EXT_TYPE_MAX, EXT_TYPE_MAX + 1}

C11_CodesInRange ==
    /\ \A i \in DOMAIN pkrgs : \A e \in pkrgs[i].entries :
         e.ext_type >= -128 /\ e.ext_type <= 127
    /\ \A i \in DOMAIN ukrgs : \A e \in ukrgs[i].entries :
         e.ext_type >= -128 /\ e.ext_type <= 127
    /\ fc.state = "live" =>
         \A n \in C11_BoundaryCodes :
           \A argv \in {<<Val(Fixnum(n)), Val(Class("A"))>>,
                        <<Val(Fixnum(n)), Val(Class("A")), Hash(Qnil, Qnil)>>} :
             LET o == RegisterType(FcPk, FcUk, argv)
             IN  IF n \in {-128, 127}
                 THEN /\ o.exc = ""
                      /\ \E e \in o.pk : e.ext_type = n
                      /\ \E e \in o.uk : e.ext_type = n
                 ELSE o.exc = "RangeError" /\ o.pk = FcPk /\ o.uk = FcUk
    /\ (result.op = "register_type" /\ result.exc = "") => CodeInRange(result.code)

\* the factory, a packer and an unpacker made from it hold both boundary codes
C11_Witness ==
    /\ fc.state = "live"
    /\ {e.ext_type : e \in FcPk} = {-128, 127}
    /\ {e.ext_type : e \in FcUk} = {-128, 127}
    /\ \E i, j \in DOMAIN codecs :
         /\ codecs[i].kind = "packer" /\ codecs[j].kind = "unpacker"
         /\ {e.ext_type : e \in CodecEntries(codecs[i])} = {-128, 127}
         /\ {e.ext_type : e \in CodecEntries(codecs[j])} = {-128, 127}

(***************************************************************************)
(* C12. f.packer and f.unpacker leave the factory as it was: the factory   *)
(* object (its two options records and the registries it names) and the    *)
(* storage and content of its encode and decode registries are the same    *)
(* before and after the call, whether the codec construction returns or    *)
(* raises.                                                                 *)
(***************************************************************************)
C12_FactoryFrame ==
    [][ (result'.op \in {"packer", "unpacker"} /\ fc.state = "live")
          => /\ fc' = fc
             /\ fc'.packer_options = fc.packer_options
             /\ fc'.unpacker_options = fc.unpacker_options
             /\ pkrgs'[fc.pkrg] = pkrgs[fc.pkrg]
             /\ ukrgs'[fc.ukrg] = ukrgs[fc.ukrg]
      ]_vars

\* a construction has raised after another one returned, on a factory with entries
C12_Witness ==
    /\ result.op \in {"packer", "unpacker"} /\ result.exc = "ArgumentError"
    /\ Len(codecs) >= 1
    /\ fc.state = "live"
    /\ FcPk # {} /\ FcUk # {}

(***************************************************************************)
(* C13. Duplicates are independent in both directions: a put on the        *)
(* registry of a codec changes neither the factory's registries nor the    *)
(* registry of any other codec; and the factory and the codecs produced    *)
(* from it hold pairwise distinct registry storage.                        *)
(***************************************************************************)
\* the storage held by the factory and by each codec of the kind
C13_Holders(kind) == {i \in DOMAIN codecs : codecs[i].kind = kind}

C13_NoSharedStorage ==
    /\ \A i \in C13_Holders("packer") :
         /\ codecs[i].ext_registry # fc.pkrg
         /\ \A j \in C13_Holders("packer") :
              codecs[j].ext_registry = codecs[i].ext_registry => j = i
    /\ \A i \in C13_Holders("unpacker") :
         /\ codecs[i].ext_registry # fc.ukrg
         /\ \A j \in C13_Holders("unpacker") :
              codecs[j].ext_registry = codecs[i].ext_registry => j = i

C13_Independent ==
    [][ /\ result'.op = "codec_put"
           => /\ fc' = fc
              /\ pkrgs'[fc.pkrg] = pkrgs[fc.pkrg]
              /\ ukrgs'[fc.ukrg] = ukrgs[fc.ukrg]
              /\ \A j \in DOMAIN codecs :
                   j # result'.argc => CodecEntriesNext(codecs[j]) = CodecEntries(codecs[j])
        /\ C13_NoSharedStorage'
      ]_vars

\* a packer registered a class of its own: the factory and a second packer lack it
C13_Witness ==
    /\ result.op = "codec_put"
    /\ fc.state = "live" /\ FcPk # {}
    /\ \E i, j \in C13_Holders("packer") :
         /\ i # j
         /\ codecs[i].state = "live" /\ codecs[j].state = "live"
         /\ \E e \in CodecEntries(codecs[i]) :
              /\ e.klass = "C"
              /\ e \notin CodecEntries(codecs[j])
              /\ e \notin FcPk
         /\ FcPk \subseteq CodecEntries(codecs[i])

(***************************************************************************)
(* C14. In the three-argument form with a code in [-128, 127], a class and *)
(* a Hash, register_type returns also when the packer entry, the unpacker  *)
(* entry or both are absent (an entry that is present being one that       *)
(* resolves): the encode registry then holds one entry for the class and   *)
(* the decode registry one entry for the code, and the hook of each absent *)
(* direction is stored as nil, whatever hook was stored there before.      *)
(***************************************************************************)
\* options with at least one entry absent, the other absent or resolvable
C14_Options ==
    {Hash(Qnil, u) : u \in {Qnil, Proc("proc1"), CallableObj}}
    \cup {Hash(p, Qnil) : p \in {Proc("proc1"), Symbol("from_msgpack_ext")}}

C14_AbsentHooks ==
    fc.state = "live" =>
      \A n \in {-128, 127}, k \in {"A", "B"}, options \in C14_Options :
        LET o == RegisterType(FcPk, FcUk, <<Val(Fixnum(n)), Val(Class(k)), options>>)
        IN  /\ o.exc = ""
            /\ Cardinality({e \in o.pk : e.klass = k}) = 1
            /\ Cardinality({e \in o.uk : e.ext_type = n}) = 1
            /\ \A e \in o.pk : e.klass = k =>
                  /\ e.ext_type = n
                  /\ options.packer = Qnil => e.proc = HookNil
                  /\ options.packer # Qnil => e.proc # HookNil
            /\ \A e \in o.uk : e.ext_type = n =>
                  /\ options.unpacker = Qnil => e.proc = HookNil
                  /\ options.unpacker # Qnil => e.proc # HookNil

\* a call without hooks has replaced the hooks that an earlier packer still holds
C14_Witness ==
    /\ fc.state = "live"
    /\ result.op = "register_type" /\ result.argc = 3 /\ result.exc = ""
    /\ \E e \in FcPk :
         /\ e.klass = result.klass.name /\ e.ext_type = result.code.num
         /\ e.proc = HookNil
         /\ \E i \in DOMAIN codecs : \E f \in CodecEntries(codecs[i]) :
              codecs[i].kind = "packer" /\ f.klass = e.klass /\ f.proc # HookNil
    /\ \E e \in FcUk : e.ext_type = result.code.num /\ e.proc = HookNil

(***************************************************************************)
(* C15 as stated: in the two-argument form the hooks are the operations    *)
(* named to_msgpack_ext and from_msgpack_ext, and neither is looked up on  *)
(* the class at registration time: the call returns for every class,       *)
(* whether or not the class defines these operations.                      *)
(***************************************************************************)
C15_Classes == {"A", "B"}

C15_AsStated ==
    fc.state = "live" =>
      \A n \in {-128, 127}, k \in C15_Classes :
        LET o == RegisterType(FcPk, FcUk, <<Val(Fixnum(n)), Val(Class(k))>>)
        IN  /\ o.exc = ""
            /\ \E e \in o.pk : e.klass = k /\ e.proc.name = "to_msgpack_ext"
            /\ \E e \in o.uk : e.ext_type = n /\ e.proc.name = "from_msgpack_ext"

(***************************************************************************)
(* C15 amended: in the two-argument form the packer hook is the operation  *)
(* named to_msgpack_ext, which is not looked up at registration time (the  *)
(* outcome is the same whether or not the instances of the class define    *)
(* it); the unpacker hook is the type-level operation from_msgpack_ext,    *)
(* which is looked up on the class at registration time and bound to it:   *)
(* the call returns exactly for the classes that define from_msgpack_ext   *)
(* and raises a name error, leaving the registries as they were, for the   *)
(* others.  Neither operation is invoked.                                  *)
(***************************************************************************)
C15_TwoArgumentHooks ==
    /\ fc.state = "live" =>
         \A n \in {-128, 127}, k \in C15_Classes :
           LET o == RegisterType(FcPk, FcUk, <<Val(Fixnum(n)), Val(Class(k))>>)
           IN  IF "from_msgpack_ext" \in SingletonMethods(k)
               THEN /\ o.exc = ""
                    /\ {e \in o.pk : e.klass = k}
                         = {PkEntry(k, n, SymProc("to_msgpack_ext"))}
                    /\ {e \in o.uk : e.ext_type = n}
                         = {UkEntry(n, MethodHook(k, "from_msgpack_ext"))}
               ELSE /\ o.exc = "NameError" /\ o.line = 169
                    /\ o.pk = FcPk /\ o.uk = FcUk
    /\ \E k \in C15_Classes :
         "from_msgpack_ext" \in SingletonMethods(k) /\ "to_msgpack_ext" \notin InstanceMethods(k)
    /\ \E k \in C15_Classes :
         "from_msgpack_ext" \notin SingletonMethods(k) /\ "to_msgpack_ext" \in InstanceMethods(k)
    /\ ( /\ result.op = "register_type" /\ result.argc = 2
         /\ CodeInRange(result.code) /\ result.klass.type = "T_CLASS" )
         => (result.exc = "" <=> "from_msgpack_ext" \in SingletonMethods(result.klass.name))

\* register_type(code, B) has raised a name error after register_type(code, A) returned
C15_Witness ==
    /\ fc.state = "live"
    /\ result.op = "register_type" /\ result.argc = 2
    /\ result.klass = Class("B") /\ CodeInRange(result.code)
    /\ result.exc = "NameError" /\ result.line = 169
    /\ \E e \in FcPk : e = PkEntry("A", e.ext_type, SymProc("to_msgpack_ext"))
    /\ \E e \in FcUk : e.proc = MethodHook("A", "from_msgpack_ext")

(***************************************************************************)
(* C16 as stated: in the three-argument form every value that is not a     *)
(* name is accepted as the unpacker entry exactly when it is accepted as   *)
(* the packer entry; an unpacker entry that is a name becomes the          *)
(* operation of that name on the class.                                    *)
(***************************************************************************)
\* the outcome of register_type(n, k, {packer: p, unpacker: u}) on the factory
C16_Register(n, k, p, u) ==
    RegisterType(FcPk, FcUk, <<Val(Fixnum(n)), Val(Class(k)), Hash(p, u)>>)

C16_Values == {Proc("proc1"), CallableObj, PlainObj}
C16_Names == {Symbol("from_msgpack_ext"), String("from_msgpack_ext")}

C16_NameResolved ==
    \A nm \in C16_Names :
      LET o == C16_Register(127, "A", Qnil, nm)
      IN  /\ o.exc = ""
          /\ {e \in o.uk : e.ext_type = 127} = {UkEntry(127, MethodHook("A", nm.name))}

C16_AsStated ==
    fc.state = "live" =>
      /\ \A v \in C16_Values, k \in {"A", "B"} :
           (C16_Register(127, k, Qnil, v).exc = "") <=> (C16_Register(127, k, v, Qnil).exc = "")
      /\ C16_NameResolved

(***************************************************************************)
(* C16 amended: the two entries are normalized differently.  A packer      *)
(* entry is accepted exactly when it answers to to_proc (a Proc, a         *)
(* Symbol), and raises NoMethodError otherwise; an unpacker entry that is  *)
(* not a name is accepted exactly when it answers to call (a Proc, an      *)
(* object that defines call) and is stored as its call operation, and      *)
(* raises a name error otherwise.  An unpacker entry that is a name        *)
(* (symbol or string) becomes the operation of that name bound to the      *)
(* class when the class defines it, and a name error otherwise.  A call    *)
(* that raises leaves the registries as they were.                         *)
(***************************************************************************)
C16_Normalization ==
    fc.state = "live" =>
      /\ \A k \in {"A", "B"} :
           /\ C16_Register(127, k, Proc("proc1"), Qnil).exc = ""
           /\ C16_Register(127, k, Qnil, Proc("proc1")).exc = ""
           /\ C16_Register(127, k, CallableObj, Qnil).exc = "NoMethodError"
           /\ C16_Register(127, k, CallableObj, Qnil).line = 164
           /\ LET o == C16_Register(127, k, Qnil, CallableObj)
              IN  /\ o.exc = ""
                  /\ {e \in o.uk : e.ext_type = 127}
                       = {UkEntry(127, MethodHook("callable", "call"))}
           /\ C16_Register(127, k, PlainObj, Qnil).exc = "NoMethodError"
           /\ C16_Register(127, k, Qnil, PlainObj).exc = "NameError"
           /\ C16_Register(127, k, Qnil, PlainObj).line = 171
           /\ C16_Register(127, k, Symbol("from_msgpack_ext"), Qnil).exc = ""
           /\ C16_Register(127, k, String("from_msgpack_ext"), Qnil).exc = "NoMethodError"
           /\ \A p, u \in C16_Values \cup C16_Names :
                LET o == C16_Register(127, k, p, u)
                IN  o.exc # "" => (o.pk = FcPk /\ o.uk = FcUk)
      /\ C16_NameResolved
      /\ \A nm \in C16_Names :
           LET o == C16_Register(127, "B", Qnil, nm)
           IN  o.exc = "NameError" /\ o.line = 169

\* an object that defines call only was accepted as the unpacker entry
C16_Witness ==
    /\ fc.state = "live"
    /\ result.op = "register_type" /\ result.argc = 3 /\ result.exc = ""
    /\ \E e \in FcUk : e.proc = MethodHook("callable", "call")
    /\ \E e \in FcPk : e.proc = HookNil

(***************************************************************************)
(* C17. Registry lifetime.  No registry storage is destroyed twice; the    *)
(* registry of a factory or codec that is alive (the only registries that  *)
(* are read, written or duplicated) is not destroyed; the registry of a    *)
(* factory or codec that was freed is destroyed exactly once; and the      *)
(* default registry a codec was constructed with, which no one holds, is   *)
(* destroyed exactly once, before the duplicate that takes its place       *)
(* exists.  Hence once the factory and all codecs are freed, every         *)
(* storage was destroyed exactly once.                                     *)
(***************************************************************************)
\* the storage held by the factory or by a codec of the kind
C17_Held(kind) ==
    (IF fc.state = "none" THEN {}
     ELSE {IF kind = "packer" THEN fc.pkrg ELSE fc.ukrg})
    \cup {codecs[i].ext_registry : i \in C13_Holders(kind)}

C17_Heap(kind) == IF kind = "packer" THEN pkrgs ELSE ukrgs

C17_Lifetime ==
    /\ \A kind \in {"packer", "unpacker"} :
         /\ \A r \in DOMAIN C17_Heap(kind) :
              /\ C17_Heap(kind)[r].destroys <= 1
              /\ r \notin C17_Held(kind) =>
                    /\ C17_Heap(kind)[r].destroys = 1
                    /\ \E i \in C13_Holders(kind) : codecs[i].ext_registry = r + 1
         /\ \A i \in C13_Holders(kind) :
              C17_Heap(kind)[codecs[i].ext_registry].destroys
                = IF codecs[i].state = "live" THEN 0 ELSE 1
    /\ fc.state \in {"live", "garbage"} =>
         pkrgs[fc.pkrg].destroys = 0 /\ ukrgs[fc.ukrg].destroys = 0
    /\ fc.state = "freed" =>
         pkrgs[fc.pkrg].destroys = 1 /\ ukrgs[fc.ukrg].destroys = 1
    /\ (fc.state = "freed" /\ \A i \in DOMAIN codecs : codecs[i].state = "freed")
         => /\ \A r \in DOMAIN pkrgs : pkrgs[r].destroys = 1
            /\ \A r \in DOMAIN ukrgs : ukrgs[r].destroys = 1

\* the factory, a packer and an unpacker made from it have all been freed
C17_Witness ==
    /\ fc.state = "freed"
    /\ Len(codecs) = 2
    /\ codecs[1].kind # codecs[2].kind
    /\ \A i \in DOMAIN codecs : codecs[i].state = "freed"
    /\ Len(pkrgs) = 3 /\ Len(ukrgs) = 3
    /\ \A r \in DOMAIN pkrgs : pkrgs[r].destroys = 1

(***************************************************************************)
(* C18. After any sequence of register_type calls, returning or raising,   *)
(* every code of an entry of the factory's encode registry is a key of its *)
(* decode registry; and when a packer and an unpacker are constructed one  *)
(* right after the other (no registration in between), every code of an    *)
(* entry of the packer's registry is a key of the unpacker's registry.     *)
(***************************************************************************)
C18_Codes(entries) == {e.ext_type : e \in entries}

C18_Consistent ==
    [][ /\ fc'.state = "live" => C18_Codes(FcPkNext) \subseteq C18_Codes(FcUkNext)
        /\ ( /\ CodecStep
             /\ result.op \in {"packer", "unpacker"} /\ result.exc = ""
             /\ LastCodec.kind # NewCodec.kind )
           => IF NewCodec.kind = "unpacker"
              THEN C18_Codes(CodecEntriesNext(LastCodec))
                     \subseteq C18_Codes(CodecEntriesNext(NewCodec))
              ELSE C18_Codes(CodecEntriesNext(NewCodec))
                     \subseteq C18_Codes(CodecEntriesNext(LastCodec))
      ]_vars

\* a class was registered under two codes in turn, then a packer and an unpacker made
C18_Witness ==
    /\ result.op = "unpacker" /\ result.exc = ""
    /\ Len(codecs) = 2
    /\ codecs[1].kind = "packer" /\ codecs[2].kind = "unpacker"
    /\ CodecEntries(codecs[1]) = FcPk /\ CodecEntries(codecs[2]) = FcUk
    /\ Cardinality(C18_Codes(CodecEntries(codecs[1]))) = 1
    /\ Cardinality(C18_Codes(CodecEntries(codecs[2]))) = 2
    /\ \E e \in FcUk : e.proc = HookNil

(***************************************************************************)
(* C19. When several arguments of a register_type call are invalid at      *)
(* once, the error is decided in a fixed order: a wrong argument count     *)
(* first, then (three arguments) options that are not a Hash, then the     *)
(* code (a type error for a code that is not an integer, a range error for *)
(* an integer outside [-128, 127]), then a type that is not a class, and   *)
(* only then a hook that cannot be resolved (the packer hook before the    *)
(* unpacker hook).  A call that raises leaves the registries as they were. *)
(***************************************************************************)
\* the line of the first failing check among those the arguments alone decide; 0 if none
C19_FirstCause(r) ==
    IF r.argc \notin {2, 3} THEN 147
    ELSE IF r.argc = 3 /\ r.opts # "T_HASH" THEN 141
    ELSE IF r.code.type # "T_FIXNUM" THEN 150
    ELSE IF r.code.num < -128 \/ r.code.num > 127 THEN 152
    ELSE IF r.klass.type # "T_CLASS" THEN 157
    ELSE 0

C19_Exception(line) ==
    CASE line \in {147, 141, 157} -> "ArgumentError"
      [] line = 150 -> "TypeError"
      [] line = 152 -> "RangeError"
      [] line = 164 -> "NoMethodError"
      [] line \in {169, 171} -> "NameError"
      [] OTHER -> ""

\* on the registries of a call that failed on a hook: hooks that cannot be resolved
\* next to other invalid arguments
C19_HookCases ==
    \A p \in {PlainObj, CallableObj}, u \in {PlainObj, String("from_msgpack_ext")} :
      LET bad == Hash(p, u)
          line(c, k) == RegisterType(FcPk, FcUk, <<c, k, bad>>).line
      IN  /\ RegisterType(FcPk, FcUk, <<Val(Fixnum(127)), Val(Class("B")), bad, Val(Qnil)>>).line = 147
          /\ line(Val(Qnil), Val(Module("M"))) = 150
          /\ line(Val(Fixnum(128)), Val(Module("M"))) = 152
          /\ line(Val(Fixnum(128)), Val(Class("B"))) = 152
          /\ line(Val(Fixnum(127)), Val(Module("M"))) = 157
          /\ line(Val(Fixnum(127)), Val(PlainObj)) = 157
          /\ line(Val(Fixnum(127)), Val(Class("B"))) = 164
          /\ RegisterType(FcPk, FcUk,
                <<Val(Fixnum(127)), Val(Class("B")), Hash(Qnil, u)>>).line \in {169, 171}

C19_ErrorOrder ==
    [][ RegisterStep =>
          /\ IF C19_FirstCause(result') # 0
             THEN result'.line = C19_FirstCause(result')
             ELSE result'.line \in {0, 164, 169, 171}
          /\ result'.exc = C19_Exception(result'.line)
          /\ result'.exc # "" => FactoryUntouched
          /\ result'.line \in {164, 169, 171} => C19_HookCases
      ]_vars

\* three faults at once: non-Hash options, a code out of range, a non-class type
C19_Witness ==
    /\ result.op = "register_type" /\ result.argc = 3
    /\ result.opts # "T_HASH"
    /\ CodeOutOfRange(result.code)
    /\ result.klass.type # "T_CLASS"
    /\ result.exc = "ArgumentError" /\ result.line = 141

====
